---------------------------- MODULE Spec2Model ----------------------------
(***************************************************************************)
(* A model of the verified-inference repository: the coherence/confidence   *)
(* scoring utilities, the REST backend (router, auth middleware, query and  *)
(* inference handlers over the SQL tables), the CSRF middleware, the        *)
(* frontend auth store, RecursionDetector's dependency graph and the        *)
(* frontend API client.                                                     *)
(*                                                                          *)
(* Numbers.  JavaScript numbers are modelled in fixed point: the integer n  *)
(* stands for n / 10000, so H(50) is 0.5 and One is 1.0.  Products and      *)
(* quotients round down to that unit.  The six metrics of analyzeCoherence  *)
(* are computed exactly as rationals and rounded to hundredths the way      *)
(* Math.round(x * 100) / 100 does; a value there is a record                *)
(* [nan, v] with v in hundredths, nan = TRUE standing for NaN.              *)
(***************************************************************************)
EXTENDS Integers, Sequences, FiniteSets, TLC

VARIABLES
  score,         \* the scoring pipeline: stage and the values live at it
  users,         \* table users: id -> statistics counters
  queries,       \* table queries: the rows in insertion order, id = position
  inferences,    \* table inferences: the rows in insertion order, id = position
  req,           \* the requests in flight, one per connection
  nreq,          \* requests received so far
  csrfTokens,    \* middleware/csrf: session key -> {token, expires}
  now,           \* Date.now() at the server, in ms since start-up
  csrf,          \* history of the CSRF middleware: tokens issued, last request
  sessionStorage, \* the browser's sessionStorage: key -> value
  localStorage,  \* the browser's localStorage: key -> value
  auth,          \* the frontend auth store, the browser's clock, the last operation
  dep,           \* RecursionDetector's dependency graph and the cycles found in it
  api            \* the frontend API client: csrfToken and the request in progress

scoreVars == <<score>>
backendVars == <<users, queries, inferences, req, nreq>>
csrfVars == <<csrfTokens, now, csrf>>
storeVars == <<sessionStorage, localStorage, auth>>
depVars == <<dep>>
apiVars == <<api>>
nonBackendVars == <<scoreVars, csrfVars, storeVars, depVars, apiVars>>
nonScoreVars == <<backendVars, csrfVars, storeVars, depVars, apiVars>>
nonCsrfVars == <<scoreVars, backendVars, storeVars, depVars, apiVars>>
nonStoreVars == <<scoreVars, backendVars, csrfVars, depVars, apiVars>>
nonDepVars == <<scoreVars, backendVars, csrfVars, storeVars, apiVars>>
nonApiVars == <<scoreVars, backendVars, csrfVars, storeVars, depVars>>
nonApiStoreVars == <<scoreVars, backendVars, csrfVars, depVars>>
vars == <<score, users, queries, inferences, req, nreq, csrfTokens, now, csrf,
          sessionStorage, localStorage, auth, dep, api>>

----------------------------------------------------------------------------
(* Bounds of the model *)

\* a text holds at most this many distinct markers of one family
MaxMarkers == 3
\* a text matches at most this many recursion patterns of one family
MaxPatterns == 2
\* the longest token sequence given to analyzeCoherence
MaxTextLen == 3
\* the most over-confidence words ("absolutely", ...) in a generated text
MaxOverconfidence == 3
\* the number of requests the server receives
MaxRequests == 3
\* the number of CSRF tokens the server issues
MaxTokens == 2
\* the number of times the clock is read at a later instant
MaxTicks == 3
\* the lifetime of a JWT the server issues, in seconds
TokenLifetime == 1
\* the most explicit references one inference carries
MaxReferences == 1

----------------------------------------------------------------------------
(* Fixed-point arithmetic *)

H(n) == n * 100
One == H(100)
Min(a, b) == IF a < b THEN a ELSE b
Max(a, b) == IF a > b THEN a ELSE b
Mul(a, b) == (a * b) \div One

----------------------------------------------------------------------------
(* LogicalAnalyzer (utils/logicalAnalysis): analyzeInference                *)
(*                                                                          *)
(* A text enters only through keyword and regex tests, so the input is the  *)
(* record of what those tests see in (inference, rationale, context):       *)
(*   conn      "none" | "consequently" | "flow": a connective of            *)
(*             calculateConsistency occurs; "flow" is one that the          *)
(*             hasLogicalFlow regex of calculateConfidence matches too      *)
(*   contra    a contradiction pattern matches                              *)
(*   recursive number of recursive indicators in the inference              *)
(*   toxic     a toxic pattern occurs in the inference                      *)
(*   overlap   inference words longer than 3 that occur in the context      *)
(*   evidence  number of evidence markers present                           *)
(*   cite, quant   a citation / a quantitative pattern matches              *)
(*   structure number of structure markers in the rationale                 *)
(*   causal    a causal marker occurs in the rationale                      *)
(*   words     rationale.split(/\s+/).length                                *)
(***************************************************************************)

WordCounts == {1, 19, 20, 200, 201}

TextFeatures ==
  [conn: {"none", "consequently", "flow"}, contra: BOOLEAN,
   recursive: 0..MaxMarkers, toxic: BOOLEAN, overlap: 0..MaxMarkers,
   evidence: 0..MaxMarkers, cite: BOOLEAN, quant: BOOLEAN,
   structure: 0..MaxMarkers, causal: BOOLEAN, words: WordCounts]

calculateConsistency(t) ==
  LET s0 == H(50)
      s1 == IF t.conn # "none" THEN s0 + H(20) ELSE s0
      s2 == IF t.contra THEN s1 - H(20) ELSE s1
      s3 == IF t.recursive > 2 THEN s2 - H(15) ELSE s2
      s4 == IF t.toxic THEN s3 - H(10) ELSE s3
      alignmentScore == Min(t.overlap * H(10), H(30))
  IN  Max(0, Min(One, s4 + alignmentScore))

calculateEvidenceStrength(t) ==
  LET s0 == H(30)
      s1 == s0 + Min(t.evidence * H(15), H(40))
      s2 == IF t.cite THEN s1 + H(20) ELSE s1
      s3 == IF t.quant THEN s2 + H(10) ELSE s2
  IN  Max(0, Min(One, s3))

calculateReasoningClarity(t) ==
  LET s0 == H(40)
      s1 == s0 + Min(t.structure * H(10), H(30))
      s2 == IF t.causal THEN s1 + H(20) ELSE s1
      s3 == IF t.words > 200 THEN s2 - H(10) ELSE s2
      s4 == IF t.words < 20 THEN s3 - H(20) ELSE s3
  IN  Max(0, Min(One, s4))

analyzeInference(t) ==
  [consistency      |-> calculateConsistency(t),
   evidenceStrength |-> calculateEvidenceStrength(t),
   reasoningClarity |-> calculateReasoningClarity(t)]

WrongWeightsCoherenceScore(metrics) ==
  Mul(metrics.consistency, H(40)) + Mul(metrics.evidenceStrength, H(35))
    + Mul(metrics.reasoningClarity, H(35))

calculateCoherenceScore(metrics) ==
  Mul(metrics.consistency, H(40)) + Mul(metrics.evidenceStrength, H(35))
    + Mul(metrics.reasoningClarity, H(25))

----------------------------------------------------------------------------
(* RecursionDetector (utils/recursion-detector): analyzeRecursion           *)
(*                                                                          *)
(* The input is how many patterns of each family the text matches.  The     *)
(* pair scans of detectCircular and detectConceptLoops push one pattern for *)
(* (i, j) and one for (j, i), so a matching pair counts twice.              *)
(***************************************************************************)

PatternCounts ==
  [selfRef: 0..MaxPatterns, circRegex: 0..MaxPatterns, circPairs: 0..MaxPatterns,
   taut: 0..MaxPatterns, loopPairs: 0..MaxPatterns]

patternsLength(p) ==
  p.selfRef + p.circRegex + 2 * p.circPairs + p.taut + 2 * p.loopPairs

\* severityScores: medium 0.5, high 0.75, critical 1.0, summed, then / 3
calculateRecursionScore(p) ==
  IF patternsLength(p) = 0 THEN 0
  ELSE LET totalScore == p.selfRef * H(75) + (p.circRegex + 2 * p.circPairs) * One
                           + p.taut * H(50) + 2 * p.loopPairs * H(75)
       IN  Min(One, totalScore \div 3)

analyzeRecursion(p) ==
  [hasRecursion |-> patternsLength(p) > 0,
   recursionScore |-> calculateRecursionScore(p),
   patterns |-> patternsLength(p)]

----------------------------------------------------------------------------
(* VerificationService.verifyInference, steps 3b and 4 *)

\* finalCoherence *= (1 - recursionScore * 0.5) when recursion is detected
recursionAdjusted(coherenceScore, recursionAnalysis) ==
  IF recursionAnalysis.hasRecursion
    THEN Mul(coherenceScore, One - Mul(recursionAnalysis.recursionScore, H(50)))
    ELSE coherenceScore

UnclampedAdjustConfidence(originalConfidence, coherenceScore, correct) ==
  LET f1 == IF ~correct THEN H(50) ELSE H(110)
      coherenceMultiplier ==
        IF coherenceScore < H(40) THEN H(50) + Mul(coherenceScore, H(125))
        ELSE IF coherenceScore < H(80) THEN H(90) + Mul(coherenceScore, H(25))
        ELSE One + Mul(coherenceScore - H(80), H(50))
      f2 == Mul(f1, coherenceMultiplier)
      f3 == IF originalConfidence > H(90) THEN Mul(f2, H(90))
            ELSE IF originalConfidence < H(30) THEN Mul(f2, H(110))
            ELSE f2
  IN  Mul(originalConfidence, f3)

adjustConfidence(originalConfidence, coherenceScore, correct) ==
  LET f1 == IF ~correct THEN H(50) ELSE H(110)
      coherenceMultiplier ==
        IF coherenceScore < H(40) THEN H(50) + Mul(coherenceScore, H(125))
        ELSE IF coherenceScore < H(80) THEN H(90) + Mul(coherenceScore, H(25))
        ELSE One + Mul(coherenceScore - H(80), H(50))
      f2 == Mul(f1, coherenceMultiplier)
      f3 == IF originalConfidence > H(90) THEN Mul(f2, H(90))
            ELSE IF originalConfidence < H(30) THEN Mul(f2, H(110))
            ELSE f2
      adjustedConfidence == Mul(originalConfidence, f3)
  IN  Max(H(10), Min(H(95), adjustedConfidence))

----------------------------------------------------------------------------
(* ClaudeService.generateInferenceAngles: calculateConfidence               *)
(*                                                                          *)
(* logicalMetrics is analyzeInference(text, evidenceText, context); cite,   *)
(* quant and flow are the tests of the same text that analyzeInference's    *)
(* input records (hasCitations, hasQuantitative, hasLogicalFlow); x holds   *)
(* the remaining tests: the angle, hasMultiplePoints, the number of         *)
(* over-confidence words and detectCircularReasoning(text).                 *)
(***************************************************************************)

Angles == {"conservative", "progressive", "synthetic"}

ConfidenceInputs ==
  [angle: Angles, multiplePoints: BOOLEAN,
   overconfidence: 0..MaxOverconfidence, circular: BOOLEAN]

baseConfidences(angle) ==
  CASE angle = "conservative" -> H(75)
    [] angle = "progressive"  -> H(65)
    [] angle = "synthetic"    -> H(70)
    [] OTHER                  -> H(70)

UnclampedCalculateConfidence(logicalMetrics, cite, quant, flow, x) ==
  LET c0 == baseConfidences(x.angle)
      c1 == IF x.multiplePoints THEN c0 + H(8) ELSE c0
      c2 == IF cite THEN c1 + H(7) ELSE c1
      c3 == IF quant THEN c2 + H(5) ELSE c2
      c4 == IF flow THEN c3 + H(5) ELSE c3
      c5 == c4 - x.overconfidence * H(3)
      coherenceScore == calculateCoherenceScore(logicalMetrics)
      c6 == IF x.circular THEN Mul(c5, H(70)) ELSE c5
      c7 == c6 + Mul(coherenceScore - H(50), H(30))
      c8 == IF x.angle = "progressive" /\ logicalMetrics.evidenceStrength < H(40)
              THEN Mul(c7, H(85)) ELSE c7
  IN  IF x.angle = "synthetic" /\ logicalMetrics.consistency < H(50)
              THEN Mul(c8, H(80)) ELSE c8

calculateConfidence(logicalMetrics, cite, quant, flow, x) ==
  LET c0 == baseConfidences(x.angle)
      c1 == IF x.multiplePoints THEN c0 + H(8) ELSE c0
      c2 == IF cite THEN c1 + H(7) ELSE c1
      c3 == IF quant THEN c2 + H(5) ELSE c2
      c4 == IF flow THEN c3 + H(5) ELSE c3
      c5 == c4 - x.overconfidence * H(3)
      coherenceScore == calculateCoherenceScore(logicalMetrics)
      c6 == IF x.circular THEN Mul(c5, H(70)) ELSE c5
      c7 == c6 + Mul(coherenceScore - H(50), H(30))
      c8 == IF x.angle = "progressive" /\ logicalMetrics.evidenceStrength < H(40)
              THEN Mul(c7, H(85)) ELSE c7
      c9 == IF x.angle = "synthetic" /\ logicalMetrics.consistency < H(50)
              THEN Mul(c8, H(80)) ELSE c8
  IN  Max(H(45), Min(H(92), c9))

----------------------------------------------------------------------------
(* LogicalAnalyzer (utils/logical-analyzer.ts): analyzeCoherence            *)
(*                                                                          *)
(* The text is a sequence of tokens separated by white space:               *)
(*   "plain"    a word that no pattern matches                              *)
(*   "because"  a RECURSIVE_INDICATORS word                                 *)
(*   "everyone" a TOXIC_PATTERNS word                                       *)
(*   "never"    a word of TOXIC_PATTERNS and (lower-cased) of               *)
(*              ABSOLUTIST_MARKERS                                          *)
(*   "cannot"   an ABSOLUTIST_MARKERS word                                  *)
(*   "end."     a plain word followed by a full stop                        *)
(*   "ws"       a run of white space that holds no word                     *)
(* <<>> is the empty string, <<"ws">> a white-space-only text.              *)
(***************************************************************************)

Tokens == {"plain", "because", "everyone", "never", "cannot", "end.", "ws"}

RECURSIVE_INDICATORS == {"because"}
TOXIC_PATTERNS == {"everyone", "never"}
ABSOLUTIST_MARKERS == {"never", "cannot"}

RECURSIVE SeqsUpTo(_)
SeqsUpTo(n) ==
  IF n = 0 THEN {<<>>}
  ELSE LET shorter == SeqsUpTo(n - 1)
       IN  shorter \cup {Append(s, tok) : s \in {x \in shorter : Len(x) = n - 1},
                                          tok \in Tokens}

Texts == SeqsUpTo(MaxTextLen)

\* countPatterns(text, patterns): occurrences of the patterns in the text
countPatterns(text, patterns) ==
  Cardinality({i \in 1..Len(text) : text[i] \in patterns})

\* text.toLowerCase().split(/\s+/).filter(w => w.length > 0).length
wordsLength(text) == Cardinality({i \in 1..Len(text) : text[i] # "ws"})

\* text.split(/[.!?]+/).filter(s => s.trim().length > 0).length
sentencesLength(text) ==
  LET stops == {i \in 1..Len(text) : text[i] = "end."}
      lastStop == IF stops = {} THEN 0 ELSE CHOOSE i \in stops : \A j \in stops : j <= i
      tail == {i \in (lastStop + 1)..Len(text) : text[i] # "ws"}
  IN  Cardinality(stops) + (IF tail = {} THEN 0 ELSE 1)

Num(v) == [nan |-> FALSE, v |-> v]
NaN == [nan |-> TRUE, v |-> 0]

\* Math.round(100 * n / d) for n >= 0, d > 0
Round100(n, d) == (200 * n + d) \div (2 * d)

\* f before rounding, as a numerator over words.length:
\* Math.min(1, (absolutistCount / words.length) * 20); 0 / 0 is NaN and
\* Math.min(1, NaN) is NaN, x / 0 for x > 0 is Infinity
fragmentation(absolutistCount, words) ==
  IF words = 0
    THEN (IF absolutistCount = 0 THEN NaN ELSE Num(1))
    ELSE Num(Min(words, 20 * absolutistCount))

analyzeCoherence(text) ==
  LET w == wordsLength(text)
      s == sentencesLength(text)
      recursiveCount == countPatterns(text, RECURSIVE_INDICATORS)
      toxicCount == countPatterns(text, TOXIC_PATTERNS)
      absolutistCount == countPatterns(text, ABSOLUTIST_MARKERS)
      W == Max(w, 1)                       \* Math.max(words.length, 1)
      S == Max(s, 1)                       \* Math.max(sentences.length, 1)
      P == Max(0, W - (2 * recursiveCount + 3 * toxicCount))   \* psi * W
      R == Min(W, 10 * recursiveCount)                         \* rho * W
      F == fragmentation(absolutistCount, w)                   \* f * w
  IN  [psi |-> Num(Round100(P, W)),
       rho |-> Num(Round100(R, W)),
       q   |-> Num(Round100(Min(30 * S, w), 30 * S)),
       f   |-> IF F.nan THEN NaN ELSE Num(Round100(F.v, W)),
       soulEcho |->
         IF F.nan THEN NaN
         ELSE Num((2 * (40 * P + 30 * (W - R) + 30 * (W - F.v)) + W) \div (2 * W)),
       collapseRisk |->
         IF F.nan THEN NaN
         ELSE Num((2 * Min(100 * W, 50 * R + 30 * F.v + 1000 * toxicCount) + W)
                    \div (2 * W))]


----------------------------------------------------------------------------
(* The scoring pipeline                                                     *)
(*                                                                          *)
(* score.stage is the position in the data flow; each stage keeps the       *)
(* values the next computation reads:                                       *)
(*   idle -> analyzed (logicalMetrics) -> coherence (coherenceScore)        *)
(*        -> final (finalCoherence) -> adjusted (adjustedConfidence)        *)
(*        -> persisted (the confidence_score parameter of the UPDATE)       *)
(*   analyzed -> generated (calculateConfidence's return value)             *)
(*   idle -> coherenceMetrics (analyzeCoherence's return value)             *)
(***************************************************************************)

NullColumn == [null |-> TRUE, v |-> 0]

ZeroCoherenceMetrics ==
  [psi |-> Num(0), rho |-> Num(0), q |-> Num(0), f |-> Num(0),
   soulEcho |-> Num(0), collapseRisk |-> Num(0)]

\* the patterns the four detectors find in a text the LLM generated: none, or
\* patterns of one detector
GeneratedPatternCounts ==
  {p \in PatternCounts :
     Cardinality({f \in DOMAIN p : p[f] > 0}) <= 1}

\* a content block of an LLM response: a text block with the patterns its
\* text has, or a block of another type
ContentBlocks ==
  {[type |-> "text", patterns |-> p] : p \in GeneratedPatternCounts} \cup
  {[type |-> "tool_use", patterns |-> [f \in {"selfRef", "circRegex", "circPairs",
                                               "taut", "loopPairs"} |-> 0]]}

\* '[Warning: Recursion patterns detected] '
RECURSION_WARNING == "[Warning: Recursion patterns detected] "

\* response.content[0].type === 'text' ? response.content[0].text : ''
\* (a text is the sequence of its parts; the text of the angle's response is
\* one part)
responseText(angle, block) == IF block.type = "text" THEN <<angle>> ELSE <<>>

\* the patterns of responseText: the empty string has none
responsePatterns(block) ==
  IF block.type = "text" THEN block.patterns
  ELSE [f \in DOMAIN block.patterns |-> 0]

\* generateInferenceAngles from its recursion check to its return: the loop
\* assigns the warning to the text property of the array's objects, the
\* returned object is built from conservativeText, progressiveText and
\* syntheticText
inferenceAngles(content) ==
  LET angleText == [a \in Angles |-> responseText(a, content[a])]
      recursionAnalysis ==
        [a \in Angles |-> analyzeRecursion(responsePatterns(content[a]))]
      inferencesArray ==
        [a \in Angles |->
           [text |-> IF recursionAnalysis[a].hasRecursion
                       THEN <<RECURSION_WARNING>> \o angleText[a]
                       ELSE angleText[a],
            angle |-> a]]
  IN  [a \in Angles |->
         [text |-> angleText[a], angle |-> a,
          original |-> angleText[a],
          hasRecursion |-> recursionAnalysis[a].hasRecursion,
          checked |-> inferencesArray[a].text]]

NoGenerated ==
  [a \in Angles |-> [text |-> <<>>, angle |-> a, original |-> <<>>,
                     hasRecursion |-> FALSE, checked |-> <<>>]]

IdleScore ==
  [stage |-> "idle",
   metrics |-> [consistency |-> 0, evidenceStrength |-> 0, reasoningClarity |-> 0],
   cite |-> FALSE, quant |-> FALSE, flow |-> FALSE,
   coherenceScore |-> 0, hasRecursion |-> FALSE, finalCoherence |-> 0,
   confidence |-> 0, column |-> NullColumn, cm |-> ZeroCoherenceMetrics,
   generated |-> NoGenerated]

\* the confidenceScore of a request body: absent, or a number (the route's
\* isFloat({min: 0, max: 1}) validator is applied by LegacyVerify)
BodyScores ==
  {[present |-> FALSE, v |-> 0]} \cup
  {[present |-> TRUE, v |-> x] :
     x \in {0 - H(50), 0, H(5), H(29), H(30), H(50), H(70), H(90), H(91), One, H(150)}}

\* LogicalAnalyzer.analyzeInference(inferenceText, rationale, context)
AnalyzeInference ==
  /\ UNCHANGED nonScoreVars
  /\ score.stage = "idle"
  /\ \E t \in TextFeatures :
       score' = [IdleScore EXCEPT !.stage = "analyzed",
                                  !.metrics = analyzeInference(t),
                                  !.cite = t.cite, !.quant = t.quant,
                                  !.flow = (t.conn = "flow")]

\* const coherenceScore = LogicalAnalyzer.calculateCoherenceScore(logicalMetrics)
CalculateCoherenceScore ==
  /\ UNCHANGED nonScoreVars
  /\ score.stage = "analyzed"
  /\ score' = [IdleScore EXCEPT !.stage = "coherence",
                                !.coherenceScore = calculateCoherenceScore(score.metrics)]

\* verifyInference step 3b: RecursionDetector.analyzeRecursion and the adjustment
CheckRecursion ==
  /\ UNCHANGED nonScoreVars
  /\ score.stage = "coherence"
  /\ \E p \in PatternCounts :
       LET recursionAnalysis == analyzeRecursion(p)
       IN  score' = [IdleScore EXCEPT
                       !.stage = "final",
                       !.hasRecursion = recursionAnalysis.hasRecursion,
                       !.finalCoherence =
                          recursionAdjusted(score.coherenceScore, recursionAnalysis)]

\* verifyInference step 4: adjustConfidence(confidenceScore || 0.7, finalCoherence, correct)
AdjustConfidence ==
  /\ UNCHANGED nonScoreVars
  /\ score.stage = "final"
  /\ \E b \in BodyScores, correct \in BOOLEAN :
       LET originalConfidence == IF b.present /\ b.v # 0 THEN b.v ELSE H(70)
       IN  score' = [IdleScore EXCEPT
                       !.stage = "adjusted",
                       !.confidence =
                          adjustConfidence(originalConfidence, score.finalCoherence, correct)]

\* verifyInference step 5: InferenceModel.verify(..., adjustedConfidence, ...)
PersistVerification ==
  /\ UNCHANGED nonScoreVars
  /\ score.stage = "adjusted"
  /\ score' = [IdleScore EXCEPT !.stage = "persisted",
                                !.column = [null |-> FALSE, v |-> score.confidence]]

\* the controller that calls InferenceModel.verify with the body's own
\* confidenceScore, behind the route's validator
LegacyVerify ==
  /\ UNCHANGED nonScoreVars
  /\ score.stage = "idle"
  /\ \E b \in BodyScores :
       IF b.present /\ ~(0 <= b.v /\ b.v <= One)
         THEN score' = [IdleScore EXCEPT !.stage = "rejected"]
         ELSE score' = [IdleScore EXCEPT
                          !.stage = "persisted",
                          !.column = IF b.present THEN [null |-> FALSE, v |-> b.v]
                                                  ELSE NullColumn]

\* generateInferenceAngles: calculateConfidence(text, angle, context)
CalculateConfidence ==
  /\ UNCHANGED nonScoreVars
  /\ score.stage = "analyzed"
  /\ \E x \in ConfidenceInputs :
       score' = [IdleScore EXCEPT
                   !.stage = "generated",
                   !.confidence = calculateConfidence(score.metrics, score.cite,
                                                      score.quant, score.flow, x)]

\* generateInferenceAngles: the recursion check of the three generated texts
\* and the returned InferenceAngles
ReturnInferenceAngles ==
  /\ UNCHANGED nonScoreVars
  /\ score.stage = "idle"
  /\ \E content \in [Angles -> ContentBlocks] :
       score' = [IdleScore EXCEPT !.stage = "angles",
                                  !.generated = inferenceAngles(content)]

\* LogicalAnalyzer.analyzeCoherence(text)
AnalyzeCoherence ==
  /\ UNCHANGED nonScoreVars
  /\ score.stage = "idle"
  /\ \E text \in Texts :
       score' = [IdleScore EXCEPT !.stage = "coherenceMetrics",
                                  !.cm = analyzeCoherence(text)]

\* the call returns
ScoreReturn ==
  /\ UNCHANGED nonScoreVars
  /\ score.stage \in {"persisted", "rejected", "generated", "coherenceMetrics", "angles"}
  /\ score' = IdleScore

InitScore == score = IdleScore

NextScore ==
  \/ AnalyzeInference
  \/ CalculateCoherenceScore
  \/ CheckRecursion
  \/ AdjustConfidence
  \/ PersistVerification
  \/ LegacyVerify
  \/ CalculateConfidence
  \/ ReturnInferenceAngles
  \/ AnalyzeCoherence
  \/ ScoreReturn

----------------------------------------------------------------------------

----------------------------------------------------------------------------
(* The REST backend                                                         *)
(*                                                                          *)
(* index.ts mounts csrfProtection and then the API router on /api; the      *)
(* router mounts the auth, queries and inferences routers.  A request is a  *)
(* record whose pc names the middleware or the awaited statement it is      *)
(* about to run; every awaited database statement or LLM call is one step   *)
(* and may fail.  The handler of a route is entered when pc is the route's  *)
(* name.  writes collects the statements of the request that changed a row. *)
(* The bearer token of a request is drawn when it arrives; params.id and    *)
(* the body are drawn where the code first reads them.  The connections are *)
(* interchangeable: c2 takes a request only while c1 is busy.               *)
(***************************************************************************)

ReqIds == {"c1", "c2"}

\* DEFAULT_USER.id of middleware/defaultUser; no row of users has it, ids
\* being uuidv4() values
DEFAULT_USER == "00000000-0000-0000-0000-000000000000"
\* the row UserModel.create makes for DEFAULT_USER.email
TestUser == "test_user"
\* the user POST /auth/register makes
Alice == "alice"

NULL == "NULL"
NOW == "NOW()"

Routes ==
  {"createQuery", "getQueries", "getQuery", "verifyInference",
   "getUnverifiedInferences", "health", "getProfile", "register"}

method(route) ==
  CASE route \in {"createQuery", "register"} -> "POST"
    [] route = "verifyInference" -> "PATCH"
    [] OTHER -> "GET"

\* req.path as a middleware mounted on /api sees it
path(route) ==
  CASE route \in {"createQuery", "getQueries"} -> "/queries"
    [] route = "getQuery" -> "/queries/:id"
    [] route = "verifyInference" -> "/inferences/:id/verify"
    [] route = "getUnverifiedInferences" -> "/inferences/unverified"
    [] route = "health" -> "/health"
    [] route = "getProfile" -> "/auth/profile"
    [] route = "register" -> "/auth/register"

\* const authMiddleware = useDefaultUser (query.routes, inference.routes)
authMiddleware == "useDefaultUser"

GuardedHealthMiddleware(route) ==
  CASE route \in {"createQuery", "getQueries", "verifyInference",
                  "getUnverifiedInferences"} ->
         <<authMiddleware, "handleValidationErrors">>
    [] route = "getQuery" -> <<authMiddleware>>
    [] route = "getProfile" -> <<"authenticate">>
    [] route = "register" -> <<"handleValidationErrors">>
    [] route = "health" -> <<"authenticate">>

\* the middleware a router runs before the handler of a route
middleware(route) ==
  CASE route \in {"createQuery", "getQueries", "verifyInference",
                  "getUnverifiedInferences"} ->
         <<authMiddleware, "handleValidationErrors">>
    [] route = "getQuery" -> <<authMiddleware>>
    [] route = "getProfile" -> <<"authenticate">>
    [] route = "register" -> <<"handleValidationErrors">>
    [] route = "health" -> <<>>

Bearers == {"none", "valid", "expired"}

\* a response body: success, data.status, and whether data.timestamp is there
NoBody == [success |-> FALSE, status |-> "none", timestamp |-> FALSE]

IdleReq ==
  [pc |-> "idle", route |-> "none", mw |-> 0, bearer |-> "none",
   user |-> "none", id |-> 0, correct |-> FALSE, query |-> 0, calls |-> 0,
   high |-> FALSE, status |-> 0, writes |-> {}, rows |-> {}, body |-> NoBody]

\* the k-th stage of a route: its k-th middleware, then its handler
Stage(route, k) ==
  IF k <= Len(middleware(route)) THEN middleware(route)[k] ELSE route

\* next()
CallNext(s) == [s EXCEPT !.mw = s.mw + 1, !.pc = Stage(s.route, s.mw + 1)]

\* res.status(status).json(...), or next(error) reaching errorHandler
Respond(s, status) ==
  [IdleReq EXCEPT !.pc = "done", !.route = s.route, !.id = s.id, !.status = status,
                  !.writes = s.writes, !.rows = s.rows, !.body = s.body]

\* csrfProtection: the state-changing methods need a token, except on the
\* two paths it compares req.path with
csrfProtection(m, p, tokenOk) ==
  \/ m \in {"GET", "HEAD", "OPTIONS"}
  \/ p \in {"/api/auth/login", "/api/auth/register"}
  \/ tokenOk

ZeroStats ==
  [total_queries |-> 0, total_verifications |-> 0, correct_verifications |-> 0,
   high_coherence_verifications |-> 0]

\* a request arrives: the app-level csrfProtection, then the route's stages
Receive(r) ==
  /\ req[r].pc = "idle"
  /\ r = "c2" => req["c1"].pc # "idle"
  /\ nreq < MaxRequests
  /\ nreq' = nreq + 1
  /\ \E route \in Routes, bearer \in Bearers, tokenOk \in BOOLEAN :
       \* a bearer token exists once a user has registered
       /\ bearer # "none" => Alice \in DOMAIN users
       /\ LET s == [IdleReq EXCEPT !.route = route, !.bearer = bearer]
          IN  req' = [req EXCEPT ![r] =
                        IF csrfProtection(method(route), path(route), tokenOk)
                          THEN CallNext(s)
                          ELSE Respond(s, 403)]
  /\ UNCHANGED <<nonBackendVars, users, queries, inferences>>

\* useDefaultUser: UserModel.findByEmail(DEFAULT_USER.email)
UseDefaultUser(r) ==
  /\ req[r].pc = "useDefaultUser"
  /\ \E ok \in BOOLEAN :
       req' = [req EXCEPT ![r] =
                 IF ~ok THEN CallNext([req[r] EXCEPT !.user = DEFAULT_USER])
                 ELSE IF TestUser \in DOMAIN users
                   THEN CallNext([req[r] EXCEPT !.user = TestUser])
                   ELSE [req[r] EXCEPT !.pc = "UserModel.create"]]
  /\ UNCHANGED <<nonBackendVars, users, queries, inferences, nreq>>

\* useDefaultUser: UserModel.create(DEFAULT_USER.email, ...); its SELECT and
\* INSERT are one step, a row made in between shows as the failure
CreateDefaultUser(r) ==
  /\ req[r].pc = "UserModel.create"
  /\ \E ok \in BOOLEAN :
       IF ok /\ TestUser \notin DOMAIN users
         THEN /\ users' = [u \in DOMAIN users \cup {TestUser} |->
                             IF u = TestUser THEN ZeroStats ELSE users[u]]
              /\ req' = [req EXCEPT ![r] =
                           CallNext([req[r] EXCEPT
                                       !.user = TestUser,
                                       !.writes = @ \cup {"users.insert"}])]
         ELSE /\ req' = [req EXCEPT ![r] =
                           CallNext([req[r] EXCEPT !.user = DEFAULT_USER])]
              /\ UNCHANGED users
  /\ UNCHANGED <<nonBackendVars, queries, inferences, nreq>>

\* authenticate: 401 unless the bearer token verifies
Authenticate(r) ==
  /\ req[r].pc = "authenticate"
  /\ req' = [req EXCEPT ![r] =
               IF req[r].bearer = "valid"
                 THEN CallNext([req[r] EXCEPT !.user = Alice])
                 ELSE Respond(req[r], 401)]
  /\ UNCHANGED <<nonBackendVars, users, queries, inferences, nreq>>

\* handleValidationErrors: 400 when a validator of the route failed
HandleValidationErrors(r) ==
  /\ req[r].pc = "handleValidationErrors"
  /\ \E valid \in BOOLEAN :
       req' = [req EXCEPT ![r] =
                 IF valid THEN CallNext(req[r]) ELSE Respond(req[r], 400)]
  /\ UNCHANGED <<nonBackendVars, users, queries, inferences, nreq>>

\* what the LLM answered to the prompt of an angle for a query
Text(angle, q) == <<angle, q>>

SwappedInferenceRow(queryId, inferenceA, inferenceB, inferenceC) ==
  [query_id |-> queryId, inference_a |-> inferenceB, inference_b |-> inferenceA,
   inference_c |-> inferenceC, verified_at |-> NULL, verification_correct |-> NULL,
   verification_rationale |-> NULL, confidence_score |-> NullColumn]

\* InferenceModel.create: the row its INSERT makes
InferenceRow(queryId, inferenceA, inferenceB, inferenceC) ==
  [query_id |-> queryId, inference_a |-> inferenceA, inference_b |-> inferenceB,
   inference_c |-> inferenceC, verified_at |-> NULL, verification_correct |-> NULL,
   verification_rationale |-> NULL, confidence_score |-> NullColumn]

\* UserModel.updateStats: UPDATE users SET field = field + 1 WHERE id = userId
updateStats(userId, field) ==
  [u \in DOMAIN users |->
     IF u = userId THEN [users[u] EXCEPT ![field] = @ + 1] ELSE users[u]]

\* createQuery: QueryModel.create(userId, ...); user_id references users(id)
CreateQuery(r) ==
  /\ req[r].pc = "createQuery"
  /\ \E ok \in BOOLEAN :
       IF ok /\ req[r].user \in DOMAIN users
         THEN /\ queries' = Append(queries, [user_id |-> req[r].user])
              /\ req' = [req EXCEPT ![r] =
                           [req[r] EXCEPT !.pc = "generateInferenceAngles",
                                          !.query = Len(queries) + 1,
                                          !.writes = @ \cup {"queries.insert"}]]
         ELSE /\ req' = [req EXCEPT ![r] = Respond(req[r], 500)]
              /\ UNCHANGED queries
  /\ UNCHANGED <<nonBackendVars, users, inferences, nreq>>

\* generateInferenceAngles: one of its three anthropic.messages.create calls;
\* a failure is rethrown as 'Failed to generate inference angles'
GenerateInferenceAngles(r) ==
  /\ req[r].pc = "generateInferenceAngles"
  /\ \E ok \in BOOLEAN :
       req' = [req EXCEPT ![r] =
                 IF ~ok THEN Respond(req[r], 500)
                 ELSE IF req[r].calls < 2
                   THEN [req[r] EXCEPT !.calls = @ + 1]
                   ELSE [req[r] EXCEPT !.calls = 3, !.pc = "InferenceModel.create"]]
  /\ UNCHANGED <<nonBackendVars, users, queries, inferences, nreq>>

\* createQuery: InferenceModel.create(query.id, conservative, progressive, synthetic)
CreateInference(r) ==
  /\ req[r].pc = "InferenceModel.create"
  /\ \E ok \in BOOLEAN :
       IF ok
         THEN /\ inferences' =
                   Append(inferences,
                          InferenceRow(req[r].query,
                                       Text("conservative", req[r].query),
                                       Text("progressive", req[r].query),
                                       Text("synthetic", req[r].query)))
              /\ req' = [req EXCEPT ![r] =
                           [req[r] EXCEPT !.pc = "total_queries",
                                          !.writes = @ \cup {"inferences.insert"}]]
         ELSE /\ req' = [req EXCEPT ![r] = Respond(req[r], 500)]
              /\ UNCHANGED inferences
  /\ UNCHANGED <<nonBackendVars, users, queries, nreq>>

\* createQuery: UserModel.updateStats(userId, 'total_queries'), then 201
UpdateTotalQueries(r) ==
  /\ req[r].pc = "total_queries"
  /\ \E ok \in BOOLEAN :
       IF ok
         THEN /\ users' = updateStats(req[r].user, "total_queries")
              /\ req' = [req EXCEPT ![r] =
                           Respond([req[r] EXCEPT !.writes = @ \cup {"users.stats"}], 201)]
         ELSE /\ req' = [req EXCEPT ![r] = Respond(req[r], 500)]
              /\ UNCHANGED users
  /\ UNCHANGED <<nonBackendVars, queries, inferences, nreq>>

\* getQueries: QueryModel.findByUserId and countByUserId
GetQueries(r) ==
  /\ req[r].pc = "getQueries"
  /\ \E ok \in BOOLEAN :
       req' = [req EXCEPT ![r] =
                 IF ok
                   THEN Respond([req[r] EXCEPT
                                   !.rows = {q \in 1..Len(queries) :
                                               queries[q].user_id = req[r].user}], 200)
                   ELSE Respond(req[r], 500)]
  /\ UNCHANGED <<nonBackendVars, users, queries, inferences, nreq>>

\* getQuery: QueryModel.findById, 404, 403, InferenceModel.findByQueryId
GetQuery(r) ==
  /\ req[r].pc = "getQuery"
  /\ \E ok \in BOOLEAN, id \in 1..MaxRequests :
       req' = [req EXCEPT ![r] =
                 IF ~ok THEN Respond(req[r], 500)
                 ELSE IF id \notin 1..Len(queries)
                   THEN Respond([req[r] EXCEPT !.id = id], 404)
                 ELSE IF queries[id].user_id # req[r].user
                   THEN Respond([req[r] EXCEPT !.id = id], 403)
                 ELSE Respond([req[r] EXCEPT
                                 !.id = id,
                                 !.rows = {i \in 1..Len(inferences) :
                                             inferences[i].query_id = id}], 200)]
  /\ UNCHANGED <<nonBackendVars, users, queries, inferences, nreq>>

UnfilteredGetUnverified(limit) ==
  {i \in 1..Len(inferences) : i <= limit}

\* InferenceModel.getUnverified: WHERE verified_at IS NULL ORDER BY created_at
\* ASC LIMIT limit
getUnverified(limit) ==
  LET unverified == {i \in 1..Len(inferences) : inferences[i].verified_at = NULL}
  IN  {i \in unverified : Cardinality({j \in unverified : j < i}) < limit}

\* getUnverifiedInferences: limit is the query parameter or its default
GetUnverifiedInferences(r) ==
  /\ req[r].pc = "getUnverifiedInferences"
  /\ \E ok \in BOOLEAN, limit \in {1, 10} :
       req' = [req EXCEPT ![r] =
                 IF ok THEN Respond([req[r] EXCEPT !.rows = getUnverified(limit)], 200)
                       ELSE Respond(req[r], 500)]
  /\ UNCHANGED <<nonBackendVars, users, queries, inferences, nreq>>

\* router.get('/health'): res.json({success: true, data: {status: 'healthy', ...}})
Health(r) ==
  /\ req[r].pc = "health"
  /\ req' = [req EXCEPT ![r] = Respond([req[r] EXCEPT
                         !.body = [success |-> TRUE, status |-> "healthy",
                                   timestamp |-> TRUE]], 200)]
  /\ UNCHANGED <<nonBackendVars, users, queries, inferences, nreq>>

\* getProfile: UserModel.findById(req.user.id)
GetProfile(r) ==
  /\ req[r].pc = "getProfile"
  /\ \E ok \in BOOLEAN :
       req' = [req EXCEPT ![r] =
                 IF ~ok THEN Respond(req[r], 500)
                 ELSE IF req[r].user \in DOMAIN users THEN Respond(req[r], 200)
                 ELSE Respond(req[r], 404)]
  /\ UNCHANGED <<nonBackendVars, users, queries, inferences, nreq>>

\* register: UserModel.create(email, username, password), 400 when taken
Register(r) ==
  /\ req[r].pc = "register"
  /\ \E ok \in BOOLEAN :
       IF ~ok
         THEN /\ req' = [req EXCEPT ![r] = Respond(req[r], 500)]
              /\ UNCHANGED users
         ELSE IF Alice \in DOMAIN users
           THEN /\ req' = [req EXCEPT ![r] = Respond(req[r], 400)]
                /\ UNCHANGED users
           ELSE /\ users' = [u \in DOMAIN users \cup {Alice} |->
                               IF u = Alice THEN ZeroStats ELSE users[u]]
                /\ req' = [req EXCEPT ![r] =
                             Respond([req[r] EXCEPT !.writes = @ \cup {"users.insert"}], 201)]
  /\ UNCHANGED <<nonBackendVars, queries, inferences, nreq>>

\* a BOOLEAN column of a row that may be NULL
SqlBoolean(b) == IF b THEN "true" ELSE "false"

\* req.body.rationale of a verify request that passed the validators
Rationale == "rationale"

\* what the analyzers see in (inferenceText, rationale, context) of a verify
\* request: a well-argued rationale and a bare one
VerifySamples ==
  {[conn |-> "flow", contra |-> FALSE, recursive |-> 0, toxic |-> FALSE,
    overlap |-> 3, evidence |-> 3, cite |-> TRUE, quant |-> TRUE,
    structure |-> 3, causal |-> TRUE, words |-> 20],
   [conn |-> "none", contra |-> FALSE, recursive |-> 0, toxic |-> FALSE,
    overlap |-> 0, evidence |-> 0, cite |-> FALSE, quant |-> FALSE,
    structure |-> 0, causal |-> FALSE, words |-> 19]}

NoPatterns ==
  [selfRef |-> 0, circRegex |-> 0, circPairs |-> 0, taut |-> 0, loopPairs |-> 0]

AnyUserOwnsQuery(inference, userId) == inference.query_id \in 1..Len(queries)

\* the negation of verifyInference's test !query || query.user_id !== userId
ownsQuery(inference, userId) ==
  /\ inference.query_id \in 1..Len(queries)
  /\ queries[inference.query_id].user_id = userId

\* verifyInference step 1: InferenceModel.findById(inferenceId), 404
VerifyFindInference(r) ==
  /\ req[r].pc = "verifyInference"
  /\ \E ok \in BOOLEAN, id \in 1..MaxRequests, correct \in BOOLEAN :
       req' = [req EXCEPT ![r] =
                 IF ~ok THEN Respond(req[r], 500)
                 ELSE IF id \notin 1..Len(inferences)
                   THEN Respond([req[r] EXCEPT !.id = id], 404)
                 ELSE [req[r] EXCEPT !.pc = "QueryModel.findById",
                                     !.id = id, !.correct = correct]]
  /\ UNCHANGED <<nonBackendVars, users, queries, inferences, nreq>>

\* verifyInference step 1: QueryModel.findById(inference.query_id), 403
VerifyFindQuery(r) ==
  /\ req[r].pc = "QueryModel.findById"
  /\ \E ok \in BOOLEAN :
       req' = [req EXCEPT ![r] =
                 IF ~ok THEN Respond(req[r], 500)
                 ELSE IF ~ownsQuery(inferences[req[r].id], req[r].user)
                   THEN Respond(req[r], 403)
                 ELSE [req[r] EXCEPT !.pc = "InferenceModel.verify"]]
  /\ UNCHANGED <<nonBackendVars, users, queries, inferences, nreq>>

\* InferenceModel.verify: the row its UPDATE leaves
VerifiedRow(row, correct, rationale, confidenceScore) ==
  [row EXCEPT !.verified_at = NOW,
              !.verification_correct = SqlBoolean(correct),
              !.verification_rationale = rationale,
              !.confidence_score = [null |-> FALSE, v |-> confidenceScore]]

\* verifyInference steps 2 to 5: the scores, then InferenceModel.verify
VerifyUpdate(r) ==
  /\ req[r].pc = "InferenceModel.verify"
  /\ \E ok \in BOOLEAN, t \in VerifySamples :
       LET logicalMetrics == analyzeInference(t)
           coherenceScore == calculateCoherenceScore(logicalMetrics)
           finalCoherence == recursionAdjusted(coherenceScore, analyzeRecursion(NoPatterns))
           adjustedConfidence == adjustConfidence(H(70), finalCoherence, req[r].correct)
       IN  IF ok
             THEN /\ inferences' =
                       [inferences EXCEPT ![req[r].id] =
                          VerifiedRow(@, req[r].correct, Rationale, adjustedConfidence)]
                  /\ req' = [req EXCEPT ![r] =
                               [req[r] EXCEPT !.pc = "total_verifications",
                                              !.high = coherenceScore >= H(80),
                                              !.writes = @ \cup {"inferences.update"}]]
             ELSE /\ req' = [req EXCEPT ![r] = Respond(req[r], 500)]
                  /\ UNCHANGED inferences
  /\ UNCHANGED <<nonBackendVars, users, queries, nreq>>

\* where updateUserStats goes after the statement at pc
AfterStats(s) ==
  IF s.pc = "total_verifications" /\ s.correct
    THEN [s EXCEPT !.pc = "correct_verifications"]
  ELSE IF s.pc # "high_coherence_verifications" /\ s.high
    THEN [s EXCEPT !.pc = "high_coherence_verifications"]
  ELSE Respond(s, 200)

\* updateUserStats: UserModel.updateStats(userId, 'total_verifications')
UpdateTotalVerifications(r) ==
  /\ req[r].pc = "total_verifications"
  /\ \E ok \in BOOLEAN :
       IF ok
         THEN /\ users' = updateStats(req[r].user, "total_verifications")
              /\ req' = [req EXCEPT ![r] =
                           AfterStats([req[r] EXCEPT !.writes = @ \cup {"users.stats"}])]
         ELSE /\ req' = [req EXCEPT ![r] = Respond(req[r], 500)]
              /\ UNCHANGED users
  /\ UNCHANGED <<nonBackendVars, queries, inferences, nreq>>

\* updateUserStats: if (correct) updateStats(userId, 'correct_verifications')
UpdateCorrectVerifications(r) ==
  /\ req[r].pc = "correct_verifications"
  /\ \E ok \in BOOLEAN :
       IF ok
         THEN /\ users' = updateStats(req[r].user, "correct_verifications")
              /\ req' = [req EXCEPT ![r] = AfterStats(req[r])]
         ELSE /\ req' = [req EXCEPT ![r] = Respond(req[r], 500)]
              /\ UNCHANGED users
  /\ UNCHANGED <<nonBackendVars, queries, inferences, nreq>>

\* updateUserStats: if (coherenceScore >= 0.8) updateStats(userId,
\* 'high_coherence_verifications')
UpdateHighCoherenceVerifications(r) ==
  /\ req[r].pc = "high_coherence_verifications"
  /\ \E ok \in BOOLEAN :
       IF ok
         THEN /\ users' = updateStats(req[r].user, "high_coherence_verifications")
              /\ req' = [req EXCEPT ![r] = AfterStats(req[r])]
         ELSE /\ req' = [req EXCEPT ![r] = Respond(req[r], 500)]
              /\ UNCHANGED users
  /\ UNCHANGED <<nonBackendVars, queries, inferences, nreq>>

\* the response is sent and the connection takes the next request
Finish(r) ==
  /\ req[r].pc = "done"
  /\ req' = [req EXCEPT ![r] = IdleReq]
  /\ UNCHANGED <<nonBackendVars, users, queries, inferences, nreq>>

----------------------------------------------------------------------------
(* middleware/csrf as index.ts mounts it                                    *)
(*                                                                          *)
(* csrfProtection is synchronous, so a request passes or fails it in one    *)
(* step, and nothing else runs before its outcome is known.  A token is the number of its issue (randomBytes never repeats);   *)
(* an X-CSRF-Token header is 0 when absent, -1 for a string of another      *)
(* length than a token, or a token.  csrf.issued remembers, per session     *)
(* key, the last token issued and when; csrf.last is the last request that  *)
(* went through csrfProtection, what became of it, and (issued) the token   *)
(* last issued for its session key when it arrived.                         *)
(***************************************************************************)

\* const expires = Date.now() + 3600000
CSRF_TTL == 3600000

\* req.ip; req.user is not set when the app-level middleware runs
SessionIds == {"ip1", "ip2"}

Methods == {"GET", "POST", "PATCH", "DELETE"}

\* a URL under the mount point /api, and req.path as the middleware sees it
Urls ==
  {[url |-> "/api/queries", path |-> "/queries"],
   [url |-> "/api/inferences/:id/verify", path |-> "/inferences/:id/verify"],
   [url |-> "/api/auth/login", path |-> "/auth/login"],
   [url |-> "/api/auth/register", path |-> "/auth/register"],
   [url |-> "/api/api/auth/login", path |-> "/api/auth/login"]}

\* the handler the API router has for a method and a path, if any
routeHandler(m, p) ==
  CASE m = "POST" /\ p = "/queries" -> "createQuery"
    [] m = "GET" /\ p = "/queries" -> "getQueries"
    [] m = "PATCH" /\ p = "/inferences/:id/verify" -> "verifyInference"
    [] m = "POST" /\ p = "/auth/login" -> "login"
    [] m = "POST" /\ p = "/auth/register" -> "register"
    [] OTHER -> "none"

NoExpiryVerifyCSRFToken(sessionId, token) ==
  IF sessionId \notin DOMAIN csrfTokens THEN "false"
  ELSE IF token = 0 - 1 THEN "throws"
  ELSE IF csrfTokens[sessionId].token = token THEN "true" ELSE "false"

\* verifyCSRFToken: "expired" is the false that deletes the entry, "throws" is
\* timingSafeEqual on buffers of different length
verifyCSRFToken(sessionId, token) ==
  IF sessionId \notin DOMAIN csrfTokens THEN "false"
  ELSE IF csrfTokens[sessionId].expires < now THEN "expired"
  ELSE IF token = 0 - 1 THEN "throws"
  ELSE IF csrfTokens[sessionId].token = token THEN "true" ELSE "false"

NoRequest ==
  [method |-> "none", url |-> "none", sessionId |-> "none", token |-> 0,
   outcome |-> "none", handler |-> "none", at |-> 0,
   issued |-> [token |-> 0, at |-> 0]]

\* getCSRFToken: generateCSRFToken(req.ip)
GetCSRFToken ==
  /\ csrf.last = NoRequest
  /\ csrf.ntok < MaxTokens
  /\ \E sessionId \in SessionIds :
       LET token == csrf.ntok + 1
       IN  /\ csrfTokens' =
                [k \in DOMAIN csrfTokens \cup {sessionId} |->
                   IF k = sessionId THEN [token |-> token, expires |-> now + CSRF_TTL]
                                    ELSE csrfTokens[k]]
           /\ csrf' = [csrf EXCEPT !.ntok = token,
                                   !.issued[sessionId] = [token |-> token, at |-> now]]
  /\ UNCHANGED <<nonCsrfVars, now>>

\* a request under /api goes through csrfProtection and on to the API router
CsrfProtection ==
  /\ csrf.last = NoRequest
  /\ \E m \in Methods, u \in Urls, sessionId \in SessionIds, token \in (0 - 1)..MaxTokens :
    LET checked == ~csrfProtection(m, u.path, FALSE) /\ token # 0
        verdict == IF checked THEN verifyCSRFToken(sessionId, token) ELSE "false"
        outcome == IF csrfProtection(m, u.path, verdict = "true") THEN "next"
                   ELSE IF verdict = "throws" THEN "500" ELSE "403"
    IN  /\ csrfTokens' = IF verdict = "expired"
                           THEN [k \in DOMAIN csrfTokens \ {sessionId} |-> csrfTokens[k]]
                           ELSE csrfTokens
        /\ csrf' = [csrf EXCEPT !.last =
                      [method |-> m, url |-> u.url, sessionId |-> sessionId,
                       token |-> token, outcome |-> outcome,
                       handler |-> IF outcome = "next" THEN routeHandler(m, u.path)
                                                       ELSE "none",
                       at |-> now, issued |-> csrf.issued[sessionId]]]
        /\ UNCHANGED <<nonCsrfVars, now>>

\* the request of csrf.last is answered
CsrfRespond ==
  /\ csrf.last # NoRequest
  /\ csrf' = [csrf EXCEPT !.last = NoRequest]
  /\ UNCHANGED <<nonCsrfVars, csrfTokens, now>>

\* the setInterval callback: delete the entries with expires < now
CleanupExpired ==
  /\ csrf.last = NoRequest
  /\ \E k \in DOMAIN csrfTokens : csrfTokens[k].expires < now
  /\ csrfTokens' = [k \in {j \in DOMAIN csrfTokens : ~(csrfTokens[j].expires < now)} |->
                      csrfTokens[k]]
  /\ UNCHANGED <<nonCsrfVars, now, csrf>>

\* time passes
Tick ==
  /\ csrf.last = NoRequest
  /\ csrf.ticks < MaxTicks
  /\ \E d \in {1, CSRF_TTL - 1, CSRF_TTL} : now' = now + d
  /\ csrf' = [csrf EXCEPT !.ticks = @ + 1]
  /\ UNCHANGED <<nonCsrfVars, csrfTokens>>

CsrfInit ==
  /\ csrfTokens = <<>>
  /\ now = 0
  /\ csrf = [ntok |-> 0, ticks |-> 0,
             issued |-> [k \in SessionIds |-> [token |-> 0, at |-> 0]],
             last |-> NoRequest]

NextCsrf ==
  \/ GetCSRFToken
  \/ CsrfProtection
  \/ CsrfRespond
  \/ CleanupExpired
  \/ Tick

----------------------------------------------------------------------------
(* The frontend: stores/authStore over utils/secureStorage                  *)
(*                                                                          *)
(* A stored value is a record.  For a token it says how many dot-separated  *)
(* segments the string has, what its second segment is, and the exp claim   *)
(* in it (seconds):                                                         *)
(*   "base64"     base64url text of a JSON object that uses only letters    *)
(*                and digits, which atob decodes                            *)
(*   "base64url"  base64url text of a JSON object that contains - or _      *)
(*   "junk"       anything else                                             *)
(* A JWT has three segments and a base64url-encoded JSON payload.           *)
(***************************************************************************)

STORAGE_PREFIX == "vsi_"

\* a key is the pair of its first four characters and the rest
TokenKey == <<STORAGE_PREFIX, "token">>
UserKey == <<STORAGE_PREFIX, "user">>

\* the keys other scripts of the page use
OtherKeys == {<<STORAGE_PREFIX, "settings">>, <<"them", "e">>}

\* key.startsWith(STORAGE_PREFIX)
startsWithPrefix(key) == key[1] = STORAGE_PREFIX

OtherValue == [segments |-> 0, payload |-> "junk", exp |-> 0]

\* the tokens the server's login and register answer with at time t (ms)
IssuedTokens(t) ==
  {[segments |-> 3, payload |-> e, exp |-> (t \div 1000) + TokenLifetime] :
     e \in {"base64", "base64url"}}

\* strings another script of the page may leave under the token key
ForeignTokens ==
  [segments: 1..3, payload: {"base64", "base64url", "junk"}, exp: 0..TokenLifetime]

\* SecureStorage.hasValidToken: JSON.parse(atob(token.split('.')[1])) throws
\* unless the second segment exists and is base64 text of JSON
hasValidToken(storage, t) ==
  /\ TokenKey \in DOMAIN storage
  /\ storage[TokenKey].segments >= 2
  /\ storage[TokenKey].payload = "base64"
  /\ t < storage[TokenKey].exp * 1000

\* SecureStorage.clearAll on one storage
clearAll(storage) ==
  [k \in {j \in DOMAIN storage : ~startsWithPrefix(j)} |-> storage[k]]

setItem(storage, key, value) ==
  [k \in DOMAIN storage \cup {key} |-> IF k = key THEN value ELSE storage[k]]

NullValue == [segments |-> 0, payload |-> "null", exp |-> 0]

\* login and register after the server answered: setToken, setUserData, set
Login ==
  /\ \E token \in IssuedTokens(auth.now) :
       /\ sessionStorage' = setItem(sessionStorage, TokenKey, token)
       /\ localStorage' = setItem(localStorage, UserKey, OtherValue)
       /\ auth' = [auth EXCEPT !.isAuthenticated = TRUE, !.token = token,
                               !.user = OtherValue, !.op = "login"]
  /\ UNCHANGED nonStoreVars

\* logout: clearAll, set
Logout ==
  /\ sessionStorage' = clearAll(sessionStorage)
  /\ localStorage' = clearAll(localStorage)
  /\ auth' = [auth EXCEPT !.isAuthenticated = FALSE, !.token = NullValue,
                          !.user = NullValue, !.op = "logout"]
  /\ UNCHANGED nonStoreVars

\* checkAuth
CheckAuth ==
  /\ IF hasValidToken(sessionStorage, auth.now)
       THEN /\ auth' = [auth EXCEPT
                          !.isAuthenticated = TRUE,
                          !.token = sessionStorage[TokenKey],
                          !.user = IF UserKey \in DOMAIN localStorage
                                     THEN localStorage[UserKey] ELSE NullValue,
                          !.op = "checkAuth"]
            /\ UNCHANGED <<sessionStorage, localStorage>>
       ELSE /\ sessionStorage' = clearAll(sessionStorage)
            /\ localStorage' = clearAll(localStorage)
            /\ auth' = [auth EXCEPT !.isAuthenticated = FALSE, !.token = NullValue,
                                    !.user = NullValue, !.op = "checkAuth"]
  /\ UNCHANGED nonStoreVars

\* another script of the page stores a value
ForeignSetItem ==
  /\ \/ \E token \in ForeignTokens :
          /\ sessionStorage' = setItem(sessionStorage, TokenKey, token)
          /\ UNCHANGED localStorage
     \/ \E key \in OtherKeys :
          \/ /\ sessionStorage' = setItem(sessionStorage, key, OtherValue)
             /\ UNCHANGED localStorage
          \/ /\ localStorage' = setItem(localStorage, key, OtherValue)
             /\ UNCHANGED sessionStorage
  /\ auth' = [auth EXCEPT !.op = "setItem"]
  /\ UNCHANGED nonStoreVars

\* time passes in the browser
BrowserTick ==
  /\ auth.ticks < MaxTicks
  /\ \E d \in {1, 999, 1000} :
       auth' = [auth EXCEPT !.now = @ + d, !.ticks = @ + 1, !.op = "tick"]
  /\ UNCHANGED <<nonStoreVars, sessionStorage, localStorage>>

StoreInit ==
  /\ sessionStorage = <<>>
  /\ localStorage = <<>>
  /\ auth = [isAuthenticated |-> FALSE, token |-> NullValue, user |-> NullValue,
             now |-> 0, ticks |-> 0, op |-> "create"]

NextAuthStore ==
  \/ Login
  \/ Logout
  \/ CheckAuth
  \/ ForeignSetItem
  \/ BrowserTick

----------------------------------------------------------------------------
(* RecursionDetector: the dependency graph and its cycles                   *)
(*                                                                          *)
(* A Map and a Set iterate in insertion order, so a Set<string> is a        *)
(* sequence without repetitions and the graph is the sequence of its keys   *)
(* with the neighbour sequence of each key.                                 *)

\* the ids of the inferences handed to buildDependencyGraph, in array order
\* (an id may occur twice in the array)
DepArrays ==
  {<<"i1">>, <<"i1", "i2">>, <<"i1", "i2", "i3">>, <<"i1", "i2", "i1">>}

\* an id no inference of the array has
UnknownId == "x"

\* inference.references
DepReferences == UNION {[1..n -> {"i1", "i2", "i3", UnknownId}] : n \in 0..MaxReferences}

\* for each array position, the positions of the other inferences whose id
\* the content contains or whose content is more than 0.9 similar
DepMentions(ids) ==
  {m \in [DOMAIN ids -> SUBSET DOMAIN ids] :
     \A k \in DOMAIN ids : \A j \in m[k] : ids[j] # ids[k]}

\* Set.prototype.add
SetAdd(s, x) == IF \E i \in DOMAIN s : s[i] = x THEN s ELSE Append(s, x)

RECURSIVE SetAddAll(_, _)
SetAddAll(s, xs) ==
  IF xs = <<>> THEN s ELSE SetAddAll(SetAdd(s, Head(xs)), Tail(xs))

\* the ids of the inferences from position j on that inference k mentions
RECURSIVE mentionedIds(_, _, _)
mentionedIds(inferencesArg, k, j) ==
  IF j > Len(inferencesArg) THEN <<>>
  ELSE (IF /\ inferencesArg[j].id # inferencesArg[k].id
           /\ j \in inferencesArg[k].mentioned
        THEN <<inferencesArg[j].id>> ELSE <<>>)
       \o mentionedIds(inferencesArg, k, j + 1)

EmptyGraph == [keys |-> <<>>, adj |-> <<>>]

\* graph.get(node) || new Set()
neighbors(graph, node) ==
  IF node \in DOMAIN graph.adj THEN graph.adj[node] ELSE <<>>

\* the loop of buildDependencyGraph from array position k on
RECURSIVE buildFrom(_, _, _)
buildFrom(inferencesArg, k, graph) ==
  IF k > Len(inferencesArg) THEN graph
  ELSE LET id == inferencesArg[k].id
           has == id \in DOMAIN graph.adj
           old == IF has THEN graph.adj[id] ELSE <<>>
           new == SetAddAll(SetAddAll(old, inferencesArg[k].references),
                            mentionedIds(inferencesArg, k, 1))
       IN  buildFrom(inferencesArg, k + 1,
                     [keys |-> IF has THEN graph.keys ELSE Append(graph.keys, id),
                      adj |-> [n \in DOMAIN graph.adj \cup {id} |->
                                 IF n = id THEN new ELSE graph.adj[n]]])

buildDependencyGraph(inferencesArg) == buildFrom(inferencesArg, 1, EmptyGraph)

\* Array.prototype.indexOf on an element the array holds
indexOf(seq, x) == CHOOSE i \in DOMAIN seq : seq[i] = x /\ \A j \in 1..(i - 1) : seq[j] # x

\* the closures of findCycles before the first call of dfs
NewSearch ==
  [cycles |-> <<>>, visited |-> {}, recursionStack |-> {}, path |-> <<>>,
   returned |-> FALSE]

\* dfs(node), and the for loop over its neighbours from position i on; the
\* result carries the closures and, in returned, the value dfs returns.
\* A return of true leaves node on path and in recursionStack.
RECURSIVE dfs(_, _, _), dfsLoop(_, _, _, _)
dfs(graph, node, s) ==
  LET entered == [s EXCEPT !.visited = @ \cup {node},
                           !.recursionStack = @ \cup {node},
                           !.path = Append(@, node)]
      after == dfsLoop(graph, neighbors(graph, node), 1, entered)
  IN  IF after.returned THEN after
      ELSE [after EXCEPT !.path = SubSeq(@, 1, Len(@) - 1),
                         !.recursionStack = @ \ {node}]

dfsLoop(graph, ns, i, s) ==
  IF i > Len(ns) THEN [s EXCEPT !.returned = FALSE]
  ELSE LET neighbor == ns[i] IN
       IF neighbor \notin s.visited
         THEN LET t == dfs(graph, neighbor, s)
              IN  IF t.returned THEN t ELSE dfsLoop(graph, ns, i + 1, t)
       ELSE IF neighbor \in s.recursionStack
         THEN LET cycleStart == indexOf(s.path, neighbor)
              IN  [s EXCEPT !.cycles = Append(@, SubSeq(s.path, cycleStart, Len(s.path))),
                            !.returned = TRUE]
       ELSE dfsLoop(graph, ns, i + 1, s)

\* the loop over graph.keys() from position k on
RECURSIVE findCyclesFrom(_, _, _)
findCyclesFrom(graph, k, s) ==
  IF k > Len(graph.keys) THEN s.cycles
  ELSE IF graph.keys[k] \notin s.visited
    THEN findCyclesFrom(graph, k + 1, dfs(graph, graph.keys[k], s))
  ELSE findCyclesFrom(graph, k + 1, s)

\* findCycles searching from the first key only
FirstKeyOnlyFindCycles(graph) ==
  IF graph.keys = <<>> THEN <<>> ELSE dfs(graph, graph.keys[1], NewSearch).cycles

findCycles(graph) == findCyclesFrom(graph, 1, NewSearch)

IdleDep == [pc |-> "idle", graph |-> EmptyGraph, cycles |-> <<>>]

\* buildDependencyGraph(inferences)
BuildDependencyGraph ==
  /\ dep.pc = "idle"
  /\ \E ids \in DepArrays :
       \E refs \in [DOMAIN ids -> DepReferences], m \in DepMentions(ids) :
         LET inferencesArg ==
               [k \in DOMAIN ids |->
                  [id |-> ids[k], references |-> refs[k], mentioned |-> m[k]]]
         IN  dep' = [pc |-> "built", graph |-> buildDependencyGraph(inferencesArg),
                     cycles |-> <<>>]
  /\ UNCHANGED nonDepVars

\* findCycles(graph)
FindCycles ==
  /\ dep.pc = "built"
  /\ dep' = [dep EXCEPT !.pc = "done", !.cycles = findCycles(dep.graph)]
  /\ UNCHANGED nonDepVars

\* the caller drops the graph and the result
DepReturn ==
  /\ dep.pc = "done"
  /\ dep' = IdleDep
  /\ UNCHANGED nonDepVars

DepInit == dep = IdleDep

NextDep ==
  \/ BuildDependencyGraph
  \/ FindCycles
  \/ DepReturn

----------------------------------------------------------------------------
(* The frontend API client (services/api.ts as the development guide gives  *)
(* it): the axios instance, its request and response interceptors and       *)
(* fetchCSRFToken.  One call of api.request is followed from the call to    *)
(* the settling of the promise the caller holds; every await of a server    *)
(* answer is a step.  The client keeps no count of the times it has sent a  *)
(* request, and neither does the model.                                     *)

\* config.method
ApiMethods == {"get", "post", "patch", "delete"}

\* config.url, relative to the baseURL
ApiUrls == {"/queries", "/inferences/:id/verify", "/auth/login", "/auth/register"}

\* config.url?.includes('/auth/login') || config.url?.includes('/auth/register')
isAuthUrl(url) == url \in {"/auth/login", "/auth/register"}

\* ['POST', 'PUT', 'DELETE', 'PATCH'].includes(config.method?.toUpperCase())
isStateChanging(m) == m \in {"post", "put", "delete", "patch"}

\* let csrfToken: string | null = null; the header is absent, null or a token
NullToken == "null"
CsrfTokenString == "csrfToken"

\* what the server answers to a request: success, 401, 403 with an error
\* that contains 'CSRF', 403 with another error, another error
ApiAnswers == {"200", "401", "403 CSRF", "403", "500"}

\* what api.get('/csrf-token') inside fetchCSRFToken comes to: a response
\* with a token, or an error
CsrfTokenAnswers == {CsrfTokenString, "error"}

\* fetchCSRFToken: csrfToken after the answer (the catch leaves it as it is)
fetchCSRFToken(csrfToken, answer) ==
  IF answer = "error" THEN csrfToken ELSE answer

NoConfig == [method |-> "none", url |-> "none", authorization |-> FALSE,
             xCsrfToken |-> "unset"]

IdleApi == [pc |-> "idle", promise |-> "none", config |-> NoConfig,
            csrfToken |-> NullToken, answer |-> "none"]

\* the request interceptor up to its first await: the Authorization header,
\* and whether a CSRF token is wanted and missing
needsCsrf(config) == isStateChanging(config.method) /\ ~isAuthUrl(config.url)

withAuthorization(config) ==
  [config EXCEPT !.authorization = TokenKey \in DOMAIN sessionStorage]

\* the request interceptor after its await, if any: the X-CSRF-Token header
\* is set when csrfToken is not null, and the request is sent
withCsrfHeader(config, csrfToken) ==
  IF needsCsrf(config) /\ csrfToken # NullToken
    THEN [config EXCEPT !.xCsrfToken = csrfToken]
    ELSE config

\* api.request(config) enters the request interceptor
enterRequest(a, config) ==
  IF needsCsrf(config) /\ a.csrfToken = NullToken
    THEN [a EXCEPT !.pc = "await fetchCSRFToken", !.config = withAuthorization(config)]
    ELSE [a EXCEPT !.pc = "sent",
                   !.config = withCsrfHeader(withAuthorization(config), a.csrfToken)]

\* a caller calls api.request(config)
ApiRequest ==
  /\ api.pc = "idle"
  /\ api.promise = "none"
  /\ \E m \in ApiMethods, url \in ApiUrls :
       api' = enterRequest([api EXCEPT !.promise = "pending", !.answer = "none"],
                           [NoConfig EXCEPT !.method = m, !.url = url])
  /\ UNCHANGED <<nonApiStoreVars, storeVars>>

\* the request interceptor's await fetchCSRFToken() completes
InterceptorFetched ==
  /\ api.pc = "await fetchCSRFToken"
  /\ \E answer \in CsrfTokenAnswers :
       LET csrfToken == fetchCSRFToken(api.csrfToken, answer)
       IN  api' = [api EXCEPT !.pc = "sent", !.csrfToken = csrfToken,
                              !.config = withCsrfHeader(@, csrfToken)]
  /\ UNCHANGED <<nonApiStoreVars, storeVars>>

\* the server answers and the response interceptor runs
ApiAnswer ==
  /\ api.pc = "sent"
  /\ \E answer \in ApiAnswers :
       /\ IF answer = "401"
            THEN /\ sessionStorage' = clearAll(sessionStorage)
                 /\ localStorage' = clearAll(localStorage)
                 /\ auth' = [auth EXCEPT !.isAuthenticated = FALSE, !.token = NullValue,
                                         !.user = NullValue, !.op = "logout"]
            ELSE UNCHANGED storeVars
       /\ api' = CASE answer = "200" ->
                        [api EXCEPT !.pc = "settled", !.promise = "resolved",
                                    !.answer = answer]
                   [] answer = "403 CSRF" ->
                        [api EXCEPT !.pc = "refresh", !.csrfToken = NullToken,
                                    !.answer = answer]
                   [] OTHER ->
                        [api EXCEPT !.pc = "settled", !.promise = "rejected",
                                    !.answer = answer]
  /\ UNCHANGED nonApiStoreVars

\* the response interceptor's fetchCSRFToken().then(...): the header is set to
\* csrfToken and the original request goes through api.request again
RetryAfterRefresh ==
  /\ api.pc = "refresh"
  /\ \E answer \in CsrfTokenAnswers :
       LET csrfToken == fetchCSRFToken(api.csrfToken, answer)
       IN  api' = enterRequest([api EXCEPT !.csrfToken = csrfToken],
                               [api.config EXCEPT !.xCsrfToken = csrfToken])
  /\ UNCHANGED <<nonApiStoreVars, storeVars>>

\* the caller's await returns or throws
ApiSettled ==
  /\ api.pc = "settled"
  /\ api' = [IdleApi EXCEPT !.csrfToken = api.csrfToken]
  /\ UNCHANGED <<nonApiStoreVars, storeVars>>

ApiInit == api = IdleApi

NextApi ==
  \/ ApiRequest
  \/ InterceptorFetched
  \/ ApiAnswer
  \/ RetryAfterRefresh
  \/ ApiSettled
  \/ Login
  \/ Logout

BackendInit ==
  /\ users = <<>>
  /\ queries = <<>>
  /\ inferences = <<>>
  /\ req = [r \in ReqIds |-> IdleReq]
  /\ nreq = 0

Init == InitScore /\ BackendInit /\ CsrfInit /\ StoreInit /\ DepInit /\ ApiInit

Next ==
  \E r \in ReqIds :
       \/ Receive(r)
       \/ UseDefaultUser(r)
       \/ CreateDefaultUser(r)
       \/ Authenticate(r)
       \/ HandleValidationErrors(r)
       \/ CreateQuery(r)
       \/ GenerateInferenceAngles(r)
       \/ CreateInference(r)
       \/ UpdateTotalQueries(r)
       \/ GetQueries(r)
       \/ GetQuery(r)
       \/ GetUnverifiedInferences(r)
       \/ Health(r)
       \/ GetProfile(r)
       \/ Register(r)
       \/ VerifyFindInference(r)
       \/ VerifyFindQuery(r)
       \/ VerifyUpdate(r)
       \/ UpdateTotalVerifications(r)
       \/ UpdateCorrectVerifications(r)
       \/ UpdateHighCoherenceVerifications(r)
       \/ Finish(r)

Spec == Init /\ [][Next]_vars

\* the scoring pipeline on its own
SpecScore == Init /\ [][NextScore]_vars

\* the CSRF middleware on its own
SpecCsrf == Init /\ [][NextCsrf]_vars

\* the frontend auth store on its own
SpecAuthStore == Init /\ [][NextAuthStore]_vars

\* RecursionDetector's dependency graph on its own
SpecDep == Init /\ [][NextDep]_vars

\* the frontend API client with the auth store's login and logout; every
\* request the client awaits is answered, and the caller takes the result
SpecApi ==
  /\ Init
  /\ [][NextApi]_vars
  /\ WF_vars(InterceptorFetched)
  /\ WF_vars(ApiAnswer)
  /\ WF_vars(RetryAfterRefresh)
  /\ WF_vars(ApiSettled)

----------------------------------------------------------------------------
(* Claims about the scores *)

InUnit(x) == 0 <= x /\ x <= One

\* C1: the three metrics of analyzeInference, the coherence score computed
\* from them and the recursion-adjusted finalCoherence all lie in [0, 1].
C1_CoherenceInUnitInterval ==
  /\ score.stage = "analyzed" =>
       /\ InUnit(score.metrics.consistency)
       /\ InUnit(score.metrics.evidenceStrength)
       /\ InUnit(score.metrics.reasoningClarity)
  /\ score.stage = "coherence" => InUnit(score.coherenceScore)
  /\ score.stage = "final" => InUnit(score.finalCoherence)

\* a recursion-adjusted coherence above 0.9: a rich text with a weak pattern
C1_Witness ==
  /\ score.stage = "final"
  /\ score.hasRecursion
  /\ score.finalCoherence > H(85)

WellDefinedUnit(m) == ~m.nan /\ 0 <= m.v /\ m.v <= 100

\* C2: for every text, the empty and the white-space-only one included, the six
\* metrics of analyzeCoherence are well-defined numbers in [0, 1].
C2_MetricsWellDefined ==
  score.stage = "coherenceMetrics" =>
    /\ WellDefinedUnit(score.cm.psi)
    /\ WellDefinedUnit(score.cm.rho)
    /\ WellDefinedUnit(score.cm.q)
    /\ WellDefinedUnit(score.cm.f)
    /\ WellDefinedUnit(score.cm.soulEcho)
    /\ WellDefinedUnit(score.cm.collapseRisk)

\* C3: calculateConfidence returns a value in [0.45, 0.92], adjustConfidence a
\* value in [0.1, 0.95], and the value written to confidence_score is NULL or
\* lies in [0, 1].
C3_ConfidenceClamped ==
  /\ score.stage = "generated" =>
       H(45) <= score.confidence /\ score.confidence <= H(92)
  /\ score.stage = "adjusted" =>
       H(10) <= score.confidence /\ score.confidence <= H(95)
  /\ score.stage = "persisted" =>
       score.column.null \/ InUnit(score.column.v)

\* the upper clamp of adjustConfidence decided the value that is written
C3_Witness ==
  /\ score.stage = "persisted"
  /\ ~score.column.null
  /\ score.column.v = H(95)


----------------------------------------------------------------------------
(* Claims about the backend *)

\* the request of connection r gets its response in this step
Responds(r) == req[r].pc # "done" /\ req'[r].pc = "done"

InferencesOf(rows, q) == {i \in 1..Len(rows) : rows[i].query_id = q}

C4_Stored ==
  \A r \in ReqIds :
    /\ (req[r].pc = "total_queries" /\ Responds(r) /\ req'[r].status = 201) =>
         /\ Cardinality(InferencesOf(inferences', req[r].query)) = 1
         /\ \A i \in InferencesOf(inferences', req[r].query) :
              /\ inferences'[i].inference_a = Text("conservative", req[r].query)
              /\ inferences'[i].inference_b = Text("progressive", req[r].query)
              /\ inferences'[i].inference_c = Text("synthetic", req[r].query)
    /\ (req[r].pc = "generateInferenceAngles" /\ Responds(r)) =>
         InferencesOf(inferences', req[r].query) = {}

C4_NoPartialSet ==
  \A q \in 1..Len(queries) :
    /\ Cardinality(InferencesOf(inferences, q)) <= 1
    /\ (\E r \in ReqIds : req[r].pc = "generateInferenceAngles" /\ req[r].query = q) =>
         InferencesOf(inferences, q) = {}

\* C4: a createQuery request that answers 201 has stored exactly one inference
\* row for its query, with the conservative, progressive and synthetic texts
\* in inference_a, inference_b and inference_c; a request whose LLM call fails
\* leaves no inference row for its query, and a query never has more than one.
C4_OneInferencePerQuery == []C4_NoPartialSet /\ [][C4_Stored]_vars

\* one createQuery answered 201 while another query lost its LLM call
C4_Witness ==
  /\ \E r \in ReqIds :
       req[r].pc = "done" /\ req[r].route = "createQuery" /\ req[r].status = 201
  /\ Len(queries) = 2
  /\ Len(inferences) = 1

IsVerified(row) == row.verified_at # NULL

C5_Rows ==
  \A i \in 1..Len(inferences) :
    IF IsVerified(inferences[i])
      THEN /\ inferences[i].verification_correct \in {"true", "false"}
           /\ inferences[i].verification_rationale = Rationale
      ELSE /\ inferences[i].verification_correct = NULL
           /\ inferences[i].verification_rationale = NULL

C5_Forward ==
  /\ Len(inferences') >= Len(inferences)
  /\ \A i \in 1..Len(inferences') :
       IF i > Len(inferences)
         THEN ~IsVerified(inferences'[i])
         ELSE IsVerified(inferences[i]) => IsVerified(inferences'[i])
  /\ \A r \in ReqIds :
       /\ (req[r].pc = "InferenceModel.verify" /\ ~Responds(r)
             /\ req'[r].pc # req[r].pc) =>
            /\ IsVerified(inferences'[req[r].id])
            /\ inferences'[req[r].id].verification_correct = SqlBoolean(req[r].correct)
            /\ inferences'[req[r].id].verification_rationale = Rationale
       /\ (req[r].pc = "getUnverifiedInferences" /\ Responds(r)) =>
            \A i \in req'[r].rows : ~IsVerified(inferences[i])

\* C5: an inference row is created with verified_at NULL; the UPDATE of a
\* verify sets verified_at together with the correct flag and the rationale;
\* a verified row never has verified_at NULL again, whatever requests follow,
\* and getUnverified never returns it.
C5_LifecycleForward == []C5_Rows /\ [][C5_Forward]_vars

\* getUnverified answered while a verified row exists
C5_Witness ==
  \E r \in ReqIds :
    /\ req[r].pc = "done" /\ req[r].route = "getUnverifiedInferences"
    /\ req[r].status = 200
    /\ \E i \in 1..Len(inferences) : IsVerified(inferences[i]) /\ i \notin req[r].rows

ChangedRows == {"inferences.update", "inferences.insert", "users.stats"}

C6_Checks ==
  \A r \in ReqIds :
    /\ req[r].pc = "verifyInference" =>
         /\ req'[r].pc = "QueryModel.findById" => req'[r].id \in 1..Len(inferences)
         /\ (Responds(r) /\ req'[r].status # 500) =>
              /\ req'[r].status = 404
              /\ req'[r].id \notin 1..Len(inferences)
              /\ req'[r].writes \cap ChangedRows = {}
    /\ req[r].pc = "QueryModel.findById" =>
         /\ req'[r].pc = "InferenceModel.verify" =>
              queries[inferences[req[r].id].query_id].user_id = req[r].user
         /\ (Responds(r) /\ req'[r].status # 500) =>
              /\ req'[r].status = 403
              /\ queries[inferences[req[r].id].query_id].user_id # req[r].user
              /\ req'[r].writes \cap ChangedRows = {}
    /\ (req[r].route = "verifyInference" /\ Responds(r) /\ req'[r].status = 200) =>
         queries[inferences[req[r].id].query_id].user_id = req[r].user

C6_Refused ==
  \A r \in ReqIds :
    (req[r].pc = "done" /\ req[r].route = "verifyInference"
       /\ req[r].status \in {403, 404}) =>
      req[r].writes \cap ChangedRows = {}

C7_HandlersAuthenticated ==
  \A r \in ReqIds :
    req[r].pc \in {"createQuery", "getQueries", "getQuery", "verifyInference"} =>
      req[r].bearer = "valid"

----------------------------------------------------------------------------
(* Claims about the CSRF middleware *)

\* the last request changes state, is not login or register, and got a handler
C8_Protected ==
  /\ csrf.last.method \in {"POST", "PUT", "PATCH", "DELETE"}
  /\ csrf.last.url \notin {"/api/auth/login", "/api/auth/register"}
  /\ csrf.last.handler # "none"

\* its header is the token last issued for its session key
C8_LatestToken ==
  /\ csrf.last.issued.token # 0
  /\ csrf.last.token = csrf.last.issued.token

\* C8: a POST, PUT, PATCH or DELETE under /api other than login and register
\* reaches a handler only with the token last issued for its session key,
\* issued at most one hour (3600000 ms) before the request.
C8_TokenWithinTheHour ==
  C8_Protected =>
    /\ C8_LatestToken
    /\ csrf.last.at - csrf.last.issued.at <= CSRF_TTL

\* C8 as stated: ... issued less than one hour before the request.
C8_TokenLessThanOneHour ==
  C8_Protected =>
    /\ C8_LatestToken
    /\ csrf.last.at - csrf.last.issued.at < CSRF_TTL

\* a POST got to createQuery with a token issued exactly one hour before
C8_Witness ==
  /\ C8_Protected
  /\ csrf.last.handler = "createQuery"
  /\ csrf.last.at - csrf.last.issued.at = CSRF_TTL

----------------------------------------------------------------------------
(* Claims about the frontend auth store *)

\* sessionStorage holds a well-formed JWT whose exp lies after t
HoldsUnexpiredJWT(storage, t) ==
  /\ TokenKey \in DOMAIN storage
  /\ storage[TokenKey].segments = 3
  /\ storage[TokenKey].payload \in {"base64", "base64url"}
  /\ t < storage[TokenKey].exp * 1000

NoPrefixedKey(storage) == \A k \in DOMAIN storage : ~startsWithPrefix(k)

C9_CheckAuthStep ==
  auth'.op = "checkAuth" =>
    /\ auth'.isAuthenticated <=> HoldsUnexpiredJWT(sessionStorage, auth.now)
    /\ ~HoldsUnexpiredJWT(sessionStorage, auth.now) =>
         /\ NoPrefixedKey(sessionStorage') /\ NoPrefixedKey(localStorage')
         /\ auth'.token = NullValue /\ auth'.user = NullValue

\* C9: checkAuth leaves the store authenticated exactly when sessionStorage
\* held a well-formed JWT with exp in the future; otherwise it removes every
\* vsi_ key from both storages and leaves token and user null.
C9_AuthenticatedIffValidJWT == [][C9_CheckAuthStep]_vars


----------------------------------------------------------------------------
(* Claims about the dependency graph *)

\* the edge relation of a graph
Edge(graph, a, b) == \E i \in DOMAIN neighbors(graph, a) : neighbors(graph, a)[i] = b

\* c is a directed cycle of the graph: each element has an edge to the next
\* and the last has an edge to the first
IsCycle(graph, c) ==
  /\ c # <<>>
  /\ \A i \in 1..(Len(c) - 1) : Edge(graph, c[i], c[i + 1])
  /\ Edge(graph, c[Len(c)], c[1])

\* C11: every list findCycles returns is a directed cycle of the graph it was
\* given: each element has an edge to the next, the last to the first.
C11_CyclesAreCycles ==
  dep.pc = "done" =>
    \A i \in DOMAIN dep.cycles : IsCycle(dep.graph, dep.cycles[i])

\* the nodes of a graph: its keys and the ids its edges point to
Nodes(graph) ==
  DOMAIN graph.adj \cup
  UNION {{graph.adj[n][i] : i \in DOMAIN graph.adj[n]} : n \in DOMAIN graph.adj}

\* the nodes reachable from a set in at most n further steps
RECURSIVE ReachableIn(_, _, _)
ReachableIn(graph, from, n) ==
  IF n = 0 THEN from
  ELSE ReachableIn(graph,
                   from \cup {b \in Nodes(graph) : \E a \in from : Edge(graph, a, b)},
                   n - 1)

\* the graph has a directed cycle: some node reaches itself in one step or more
HasCycle(graph) ==
  \E a \in Nodes(graph) :
    a \in ReachableIn(graph, {b \in Nodes(graph) : Edge(graph, a, b)},
                      Cardinality(Nodes(graph)))

\* C12: findCycles returns a non-empty list exactly when the graph has a
\* directed cycle, also when edges point to ids that are not keys of the map.
C12_NonEmptyIffCyclic ==
  dep.pc = "done" => ((dep.cycles # <<>>) <=> HasCycle(dep.graph))

\* a cyclic graph with an edge to an id that is not a key, searched
C12_Witness ==
  /\ dep.pc = "done"
  /\ dep.cycles # <<>>
  /\ \E n \in DOMAIN dep.graph.adj : Edge(dep.graph, n, UnknownId)
  /\ Len(dep.graph.keys) = 3


----------------------------------------------------------------------------
(* Claims about the generated texts *)

\* C13: a generated text for which analyzeRecursion reports hasRecursion is
\* returned by generateInferenceAngles with the warning in front of it, and
\* a text without detected recursion is returned unchanged.
C13_WarningPrefixed ==
  score.stage = "angles" =>
    \A a \in Angles :
      score.generated[a].text =
        IF score.generated[a].hasRecursion
          THEN <<RECURSION_WARNING>> \o score.generated[a].original
          ELSE score.generated[a].original


----------------------------------------------------------------------------
(* Claims about the counters *)

\* C14: a verify request that answers with an error has changed neither the
\* inference row nor the user's counters, and one that answers with success
\* has marked the inference verified and incremented the user's
\* total_verifications.
C14_VerifyAllOrNothing ==
  \A r \in ReqIds :
    (req[r].pc = "done" /\ req[r].route = "verifyInference") =>
      IF req[r].status >= 400
        THEN req[r].writes \cap {"inferences.update", "users.stats"} = {}
        ELSE /\ {"inferences.update", "users.stats"} \subseteq req[r].writes
             /\ IsVerified(inferences[req[r].id])


\* no request is in flight
Quiescent == \A r \in ReqIds : req[r].pc \in {"idle", "done"}

\* the rows of the queries table a user owns
QueriesOf(u) == {q \in 1..Len(queries) : queries[q].user_id = u}

\* C15: with no request in flight, each user's total_queries equals the
\* number of queries rows the user owns, and every stored query has an
\* inference record.
C15_TotalQueriesMatchesRows ==
  Quiescent =>
    /\ \A u \in DOMAIN users : users[u].total_queries = Cardinality(QueriesOf(u))
    /\ \A q \in 1..Len(queries) : InferencesOf(inferences, q) # {}

\* the guide's user-performance query: the verified inferences of a user's
\* queries
VerifiedOf(u) ==
  {i \in 1..Len(inferences) :
     IsVerified(inferences[i]) /\ inferences[i].query_id \in QueriesOf(u)}

\* C16: with every verify request completed, each user's total_verifications
\* equals the number of verified inferences that belong to the user's
\* queries.
C16_TotalVerificationsMatchesRows ==
  Quiescent =>
    \A u \in DOMAIN users :
      users[u].total_verifications = Cardinality(VerifiedOf(u))


----------------------------------------------------------------------------
(* Claims about the authentication endpoints and the CSRF check *)

\* C17: a POST to /api/auth/login or /api/auth/register without an
\* X-CSRF-Token header passes csrfProtection as the server mounts it and
\* reaches the login or register handler.
C17_AuthEndpointsSkipCsrf ==
  (/\ csrf.last.method = "POST"
   /\ csrf.last.url \in {"/api/auth/login", "/api/auth/register"}
   /\ csrf.last.token = 0)
  => /\ csrf.last.outcome = "next"
     /\ csrf.last.handler \in {"login", "register"}


----------------------------------------------------------------------------
(* Claims about the frontend API client *)

\* C18: the CSRF recovery terminates: a request answered with 403 'CSRF' is
\* re-sent only a bounded number of times, so the promise the caller holds is
\* eventually settled (rejected, if the server keeps answering 403 CSRF or
\* the token refresh keeps failing) instead of being retried forever.
C18_RecoveryTerminates ==
  (api.promise = "pending" /\ api.answer = "403 CSRF") ~> (api.promise # "pending")

=============================================================================
